---- MODULE Spec2Model ----
(***************************************************************************)
(* A model of the text-cleaning and content-distribution core of the      *)
(* slide generator (src/emotion.py, class EnhancedPPTGenerator).          *)
(*                                                                         *)
(* A Python str is modelled as a sequence of characters; a character is a *)
(* one-character string ("a", "&", " "), except for the characters        *)
(* outside ASCII, which are written by their code point ("U+00A0").       *)
(* The characters of the model's texts are the letters a m p b s n, the   *)
(* digits, the punctuation & ; < > / \ * . , ! ? [ ] ( ) - and the white  *)
(* space characters space, tab and U+00A0; titles also hold P r t.        *)
(***************************************************************************)
EXTENDS Integers, Sequences, FiniteSets, TLC

Max(a, b) == IF a >= b THEN a ELSE b

Min(a, b) == IF a <= b THEN a ELSE b

(* c in s *)
Has(s, c) == \E i \in 1..Len(s) : s[i] = c

(* s.startswith(p, i - 1) *)
StartsWithAt(s, i, p) ==
    /\ i + Len(p) - 1 <= Len(s)
    /\ \A k \in 1..Len(p) : s[i + k - 1] = p[k]

(* The first index >= from at which character c stands, 0 when there is none. *)
FirstAt(s, c, from) ==
    LET S == {i \in from..Len(s) : s[i] = c}
    IN  IF S = {} THEN 0 ELSE CHOOSE i \in S : \A j \in S : i <= j

(* The first index >= from at which p starts, 0 when there is none. *)
Find(s, p, from) ==
    LET S == {i \in from..Len(s) : StartsWithAt(s, i, p)}
    IN  IF S = {} THEN 0 ELSE CHOOSE i \in S : \A j \in S : i <= j

(* The characters re's \s matches and str.strip() strips. *)
WhiteSpace == {" ", "\t", "\n", "\r", "\f", "U+00A0"}

IsSpace(c) == c \in WhiteSpace

RECURSIVE ReplaceFrom(_, _, _, _)
ReplaceFrom(s, old, new, i) ==
    IF i > Len(s) THEN <<>>
    ELSE IF StartsWithAt(s, i, old)
         THEN new \o ReplaceFrom(s, old, new, i + Len(old))
         ELSE <<s[i]>> \o ReplaceFrom(s, old, new, i + 1)

(* str.replace(old, new): the occurrences of old, leftmost first and not  *)
(* overlapping, replaced by new.                                          *)
Replace(s, old, new) ==
    IF ~Has(s, old[1]) THEN s ELSE ReplaceFrom(s, old, new, 1)

(* c * n *)
Rep(c, n) == [i \in 1..n |-> c]

RECURSIVE Flatten(_, _)
(* ''.join(parts[k - 1:]) *)
Flatten(parts, k) ==
    IF k > Len(parts) THEN <<>> ELSE parts[k] \o Flatten(parts, k + 1)

(***************************************************************************)
(* html.unescape.  html5 is the table html.entities.html5 restricted to   *)
(* the names that can be written with the letters a m p b s n and the     *)
(* digits.  The character '#' is not a character of the model's texts, so *)
(* the numeric references are not modelled.                               *)
(***************************************************************************)
html5 ==
    { [name |-> <<"a","m","p">>,         value |-> <<"&">>],
      [name |-> <<"a","m","p",";">>,     value |-> <<"&">>],
      [name |-> <<"a","p",";">>,         value |-> <<"U+2248">>],
      [name |-> <<"m","a","p",";">>,     value |-> <<"U+21A6">>],
      [name |-> <<"m","p",";">>,         value |-> <<"U+2213">>],
      [name |-> <<"n","a","p",";">>,     value |-> <<"U+2249">>],
      [name |-> <<"n","b","s","p">>,     value |-> <<"U+00A0">>],
      [name |-> <<"n","b","s","p",";">>, value |-> <<"U+00A0">>],
      [name |-> <<"p","m",";">>,         value |-> <<"U+00B1">>] }

InHtml5(m) == \E e \in html5 : e.name = m

Html5Value(m) == (CHOOSE e \in html5 : e.name = m).value

(* The characters that end an entity name: [^\t\n\f <&#;] is a name character. *)
NameStop == {"\t", "\n", "\f", " ", "<", "&", "#", ";"}

RECURSIVE NameRun(_, _, _)
(* How many name characters stand from index j on, at most k of them. *)
NameRun(s, j, k) ==
    IF k = 0 \/ j > Len(s) \/ s[j] \in NameStop THEN 0
    ELSE 1 + NameRun(s, j + 1, k - 1)

(* replace_charref for a named reference m (the text after the '&'). *)
ReplaceCharref(m) ==
    IF InHtml5(m) THEN Html5Value(m)
    ELSE LET X == {x \in 2..(Len(m) - 1) : InHtml5(SubSeq(m, 1, x))}
         IN  IF X = {} THEN <<"&">> \o m
             ELSE LET x == CHOOSE y \in X : \A z \in X : z <= y
                  IN  Html5Value(SubSeq(m, 1, x)) \o SubSeq(m, x + 1, Len(m))

RECURSIVE UnescapeFrom(_, _)
UnescapeFrom(s, i) ==
    IF i > Len(s) THEN <<>>
    ELSE IF s[i] # "&" THEN <<s[i]>> \o UnescapeFrom(s, i + 1)
    ELSE LET r == NameRun(s, i + 1, 32)
             semi == IF i + r + 1 <= Len(s) /\ s[i + r + 1] = ";" THEN 1 ELSE 0
         IN  IF r = 0 THEN <<s[i]>> \o UnescapeFrom(s, i + 1)
             ELSE ReplaceCharref(SubSeq(s, i + 1, i + r + semi))
                      \o UnescapeFrom(s, i + r + semi + 1)

Unescape(s) == IF ~Has(s, "&") THEN s ELSE UnescapeFrom(s, 1)

(* The dict `replacements` of _clean_html_entities, in its order. *)
replacements ==
    << [old |-> <<"&","a","m","p",";">>,             new |-> <<"&">>],
       [old |-> <<"&","l","t",";">>,                 new |-> <<"<">>],
       [old |-> <<"&","g","t",";">>,                 new |-> <<">">>],
       [old |-> <<"&","n","b","s","p",";">>,         new |-> <<" ">>],
       [old |-> <<"&","q","u","o","t",";">>,         new |-> <<"\"">>],
       [old |-> <<"&","#","3","9",";">>,             new |-> <<"'">>],
       [old |-> <<"&","h","e","l","l","i","p",";">>, new |-> <<".",".",".">>],
       [old |-> <<"&","m","d","a","s","h",";">>,     new |-> <<"U+2014">>],
       [old |-> <<"&","n","d","a","s","h",";">>,     new |-> <<"U+2013">>] >>

RECURSIVE ReplaceAll(_, _)
(* for old, new in replacements.items(): text = text.replace(old, new) *)
ReplaceAll(s, k) ==
    IF k > Len(replacements) THEN s
    ELSE ReplaceAll(Replace(s, replacements[k].old, replacements[k].new), k + 1)

_clean_html_entities(s) ==
    IF s = <<>> THEN <<>> ELSE ReplaceAll(Unescape(s), 1)

(***************************************************************************)
(* re.sub(r'\\X', 'X', text) for X in a set of characters that holds no   *)
(* backslash: a match is a backslash and the character after it, so no    *)
(* two matches overlap and a backslash goes exactly when the character    *)
(* after it is in the set.                                                *)
(***************************************************************************)
Unbackslash(s, set) ==
    IF ~Has(s, "\\") THEN s
    ELSE LET mark == [i \in 1..Len(s) |->
                        IF s[i] = "\\" /\ i < Len(s) /\ s[i + 1] \in set
                        THEN "" ELSE s[i]]
             Kept(c) == c # ""
         IN  SelectSeq(mark, Kept)

(* [.,;:!?()[\]{}] *)
EscapedPunctuation ==
    {".", ",", ";", ":", "!", "?", "(", ")", "[", "]", "{", "}"}

_clean_escape_characters(s) ==
    IF s = <<>> THEN <<>>
    ELSE LET t1 == Unbackslash(s, EscapedPunctuation)
             t2 == Unbackslash(t1, {"*"})
             t3 == Unbackslash(t2, {"_"})
             t4 == Unbackslash(t3, {"-"})
             t5 == Unbackslash(t4, {"\""})
         IN  Unbackslash(t5, {"'"})

(***************************************************************************)
(* re.sub(r'<span[^>]*>(.*?)</span>', r'\1', text, flags=re.DOTALL)       *)
(* A match at i: "<span" stands at i, the first '>' after it closes the   *)
(* opening tag ([^>]* cannot pass a '>') and the first "</span>" after    *)
(* that ends the match; the text between the two is kept.                 *)
(***************************************************************************)
SpanOpen == <<"<", "s", "p", "a", "n">>

SpanClose == <<"<", "/", "s", "p", "a", "n", ">">>

RECURSIVE UnwrapSpanFrom(_, _)
UnwrapSpanFrom(s, i) ==
    IF i > Len(s) THEN <<>>
    ELSE LET gt == IF StartsWithAt(s, i, SpanOpen)
                   THEN FirstAt(s, ">", i + Len(SpanOpen)) ELSE 0
             close == IF gt = 0 THEN 0 ELSE Find(s, SpanClose, gt + 1)
         IN  IF close = 0 THEN <<s[i]>> \o UnwrapSpanFrom(s, i + 1)
             ELSE SubSeq(s, gt + 1, close - 1)
                      \o UnwrapSpanFrom(s, close + Len(SpanClose))

UnwrapSpan(s) == IF ~Has(s, "<") THEN s ELSE UnwrapSpanFrom(s, 1)

(* div|p|br|strong|em|b|i|u|font *)
CommonTags ==
    { <<"d","i","v">>, <<"p">>, <<"b","r">>, <<"s","t","r","o","n","g">>,
      <<"e","m">>, <<"b">>, <<"i">>, <<"u">>, <<"f","o","n","t">> }

(***************************************************************************)
(* Where the match of </?(?:div|p|br|strong|em|b|i|u|font)[^>]*> that     *)
(* starts at i ends, 0 when none starts there: after '<' and an optional  *)
(* '/' one of the names stands, and the first '>' after it ends the match *)
(* ([^>]* takes whatever follows the name).                               *)
(***************************************************************************)
CommonTagEnd(s, i) ==
    IF i > Len(s) \/ s[i] # "<" THEN 0
    ELSE LET j == IF i < Len(s) /\ s[i + 1] = "/" THEN i + 2 ELSE i + 1
         IN  IF \E t \in CommonTags : StartsWithAt(s, j, t)
             THEN FirstAt(s, ">", j) ELSE 0

(* Where the match of <[^>]+> that starts at i ends, 0 when none does. *)
AnyTagEnd(s, i) ==
    IF i >= Len(s) \/ s[i] # "<" \/ s[i + 1] = ">" THEN 0
    ELSE FirstAt(s, ">", i + 2)

RECURSIVE StripCommonFrom(_, _)
StripCommonFrom(s, i) ==
    IF i > Len(s) THEN <<>>
    ELSE LET e == CommonTagEnd(s, i)
         IN  IF e = 0 THEN <<s[i]>> \o StripCommonFrom(s, i + 1)
             ELSE StripCommonFrom(s, e + 1)

StripCommonTags(s) == IF ~Has(s, "<") THEN s ELSE StripCommonFrom(s, 1)

RECURSIVE StripAnyFrom(_, _)
StripAnyFrom(s, i) ==
    IF i > Len(s) THEN <<>>
    ELSE LET e == AnyTagEnd(s, i)
         IN  IF e = 0 THEN <<s[i]>> \o StripAnyFrom(s, i + 1)
             ELSE StripAnyFrom(s, e + 1)

StripAnyTags(s) == IF ~Has(s, "<") THEN s ELSE StripAnyFrom(s, 1)

_remove_html_tags(s) ==
    IF s = <<>> THEN <<>>
    ELSE StripAnyTags(StripCommonTags(UnwrapSpan(s)))

(* re.sub(r'\s+', ' ', text): every run of white space becomes one space. *)
CollapseSpaces(s) ==
    LET mark == [i \in 1..Len(s) |->
                    IF ~IsSpace(s[i]) THEN s[i]
                    ELSE IF i > 1 /\ IsSpace(s[i - 1]) THEN "" ELSE " "]
        Kept(c) == c # ""
    IN  SelectSeq(mark, Kept)

RECURSIVE LeadingSpaces(_, _)
(* How many white space characters stand from index j on. *)
LeadingSpaces(s, j) ==
    IF j > Len(s) \/ ~IsSpace(s[j]) THEN 0 ELSE 1 + LeadingSpaces(s, j + 1)

RECURSIVE TrailingSpaces(_, _)
(* How many white space characters stand from index j back. *)
TrailingSpaces(s, j) ==
    IF j < 1 \/ ~IsSpace(s[j]) THEN 0 ELSE 1 + TrailingSpaces(s, j - 1)

(* str.strip() *)
Strip(s) ==
    LET lead == LeadingSpaces(s, 1)
    IN  IF lead = Len(s) THEN <<>>
        ELSE SubSeq(s, lead + 1, Len(s) - TrailingSpaces(s, Len(s)))

_normalize_whitespace(s) ==
    IF s = <<>> THEN <<>> ELSE Strip(CollapseSpaces(s))

(***************************************************************************)
(* A Python value given where a text is expected: None, a str, an int or  *)
(* a list of ints.                                                        *)
(***************************************************************************)
None == [kind |-> "None", str |-> <<>>, int |-> 0, list |-> <<>>]

StrVal(s) == [kind |-> "str", str |-> s, int |-> 0, list |-> <<>>]

IntVal(n) == [kind |-> "int", str |-> <<>>, int |-> n, list |-> <<>>]

ListVal(l) == [kind |-> "list", str |-> <<>>, int |-> 0, list |-> l]

Digit(d) == <<"0", "1", "2", "3", "4", "5", "6", "7", "8", "9">>[d + 1]

RECURSIVE Decimal(_)
(* str(n) of an int n >= 0 *)
Decimal(n) ==
    IF n < 10 THEN <<Digit(n)>> ELSE Decimal(n \div 10) \o <<Digit(n % 10)>>

(* str(n) of an int *)
IntStr(n) == IF n < 0 THEN <<"-">> \o Decimal(-n) ELSE Decimal(n)

RECURSIVE ListItems(_, _)
(* ', '.join(repr(x) for x in l[k - 1:]) of a list of ints *)
ListItems(l, k) ==
    IF k > Len(l) THEN <<>>
    ELSE IntStr(l[k]) \o (IF k < Len(l) THEN <<",", " ">> ELSE <<>>)
             \o ListItems(l, k + 1)

(* str(v) *)
PyStr(v) ==
    CASE v.kind = "str"  -> v.str
      [] v.kind = "int"  -> IntStr(v.int)
      [] v.kind = "list" -> <<"[">> \o ListItems(v.list, 1) \o <<"]">>
      [] v.kind = "None" -> <<"N", "o", "n", "e">>

(* The cleaning steps of _validate_and_clean_text_input, in their order. *)
CleanStr(s) ==
    _normalize_whitespace(
        _remove_html_tags(_clean_escape_characters(_clean_html_entities(s))))

(* _validate_and_clean_text_input giving "" for every value that is no str *)
ValidateEmptyUnlessStr(v) ==
    IF v.kind # "str" THEN <<>> ELSE CleanStr(v.str)

_validate_and_clean_text_input(v) ==
    IF v.kind = "None" THEN <<>>
    ELSE CleanStr(IF v.kind # "str" THEN PyStr(v) ELSE v.str)

MAX_BULLETS_PER_SLIDE == 5

COMPREHENSIVE_TEXT_THRESHOLD == 120

(* The word count above which _estimate_text_length calls a text long. *)
WordThreshold == 20

(* len(text.split()) *)
WordCount(s) ==
    Cardinality({i \in 1..Len(s) : ~IsSpace(s[i]) /\ (i = 1 \/ IsSpace(s[i - 1]))})

_estimate_text_length(s) ==
    IF s = <<>> THEN FALSE
    ELSE LET clean_text == CleanStr(s)
         IN  \/ Len(clean_text) > COMPREHENSIVE_TEXT_THRESHOLD
             \/ WordCount(clean_text) > WordThreshold

(***************************************************************************)
(* re.split(r'(?<=[set])\s+', s): a match starts at a white space         *)
(* character that follows a character of the set and takes the whole run  *)
(* of white space; the pieces are the texts between the matches.          *)
(***************************************************************************)
SplitAfter(s, set) ==
    LET idx == [i \in 1..Len(s) |-> i]
        Starts(i) == i > 1 /\ IsSpace(s[i]) /\ s[i - 1] \in set
        starts == SelectSeq(idx, Starts)
    IN  [k \in 1..(Len(starts) + 1) |->
            SubSeq(s,
                   IF k = 1 THEN 1
                   ELSE starts[k - 1] + LeadingSpaces(s, starts[k - 1]),
                   IF k <= Len(starts) THEN starts[k] - 1 ELSE Len(s))]

RECURSIVE Join(_, _, _, _)
(* sep.join(parts[lo - 1:hi]), by halves *)
Join(parts, sep, lo, hi) ==
    IF lo > hi THEN <<>>
    ELSE IF lo = hi THEN parts[lo]
    ELSE LET mid == (lo + hi) \div 2
         IN  Join(parts, sep, lo, mid) \o sep \o Join(parts, sep, mid + 1, hi)

RECURSIVE SumLen(_, _, _)
(* sum(len(p) for p in parts[lo - 1:hi]), by halves *)
SumLen(parts, lo, hi) ==
    IF lo > hi THEN 0
    ELSE IF lo = hi THEN Len(parts[lo])
    ELSE LET mid == (lo + hi) \div 2
         IN  SumLen(parts, lo, mid) + SumLen(parts, mid + 1, hi)

(***************************************************************************)
(* The grouping loop of _split_long_bullet, taken one group at a time.    *)
(* The group opened by piece a takes the pieces after it as long as       *)
(*     current_length + len(piece) <= cap and current_group                *)
(* holds, where current_length is the summed length of the pieces of the  *)
(* group (the separators are not counted): GroupEnd is its last piece.    *)
(***************************************************************************)
GroupEnd(pieces, a, cap) ==
    a + Cardinality({k \in (a + 1)..Len(pieces) : SumLen(pieces, a, k) <= cap})

RECURSIVE GroupsFrom(_, _, _, _)
(* grouped.append(sep.join(current_group)) for the groups from piece a on. *)
GroupsFrom(pieces, a, cap, sep) ==
    IF a > Len(pieces) THEN <<>>
    ELSE LET b == GroupEnd(pieces, a, cap)
         IN  <<Join(pieces, sep, a, b)>> \o GroupsFrom(pieces, b + 1, cap, sep)

(* The groups of the stripped pieces, the blank ones left out. *)
Regroup(pieces, cap, sep) ==
    LET stripped == [k \in 1..Len(pieces) |-> Strip(pieces[k])]
        NotBlank(g) == Strip(g) # <<>>
    IN  SelectSeq(GroupsFrom(stripped, 1, cap, sep), NotBlank)

(* The length up to which _split_long_bullet keeps a text whole. *)
KeepWholeLength == 250

(* The length above which _split_long_bullet tries the clause boundaries. *)
ClauseSplitLength == 300

SentenceCap == 200

ClauseCap == 180

SentenceEnd == {".", "!", "?"}

ClauseEnd == {",", ";"}

(* ' '.join(current_group) *)
SentenceSep == <<" ">>

(* ', '.join(current_group) *)
ClauseSep == <<",", " ">>

(* Which return of _split_long_bullet a text takes. *)
SplitPath(s) ==
    LET text == CleanStr(s)
    IN  IF s = <<>> \/ Len(text) <= KeepWholeLength THEN "whole"
        ELSE IF Len(SplitAfter(text, SentenceEnd)) > 1 THEN "sentences"
        ELSE IF Len(text) > ClauseSplitLength
                /\ Len(SplitAfter(text, ClauseEnd)) > 1 THEN "clauses"
        ELSE "whole"

_split_long_bullet(s) ==
    IF s = <<>> THEN <<s>>
    ELSE LET text == CleanStr(s)
             path == SplitPath(s)
         IN  CASE path = "whole" -> <<text>>
               [] path = "sentences" ->
                    Regroup(SplitAfter(text, SentenceEnd), SentenceCap, SentenceSep)
               [] path = "clauses" ->
                    Regroup(SplitAfter(text, ClauseEnd), ClauseCap, ClauseSep)

(***************************************************************************)
(* _distribute_content.  A slide is the pair (slide_title, slide_content) *)
(* of the code, written as a record.                                      *)
(***************************************************************************)

(* What the loop over content adds to processed_content for one point. *)
ProcessPoint(point) ==
    LET cleaned_point == _validate_and_clean_text_input(StrVal(PyStr(point)))
    IN  IF cleaned_point = <<>> THEN <<>>
        ELSE IF _estimate_text_length(cleaned_point)
             THEN _split_long_bullet(cleaned_point)
             ELSE <<cleaned_point>>

RECURSIVE ProcessContent(_, _)
(* processed_content after the loop over content[k - 1:] *)
ProcessContent(content_, k) ==
    IF k > Len(content_) THEN <<>>
    ELSE ProcessPoint(content_[k]) \o ProcessContent(content_, k + 1)

(* `max_slides and max_slides > 0` *)
SlidesGiven(max_slides_) ==
    max_slides_.kind = "int" /\ max_slides_.int # 0 /\ max_slides_.int > 0

(* points_per_slide without the cap of MAX_BULLETS_PER_SLIDE *)
points_per_slide_uncapped(n, max_slides_) ==
    IF SlidesGiven(max_slides_)
    THEN Max(1, (n + max_slides_.int - 1) \div max_slides_.int)
    ELSE MAX_BULLETS_PER_SLIDE

(* points_per_slide with the quotient rounded down *)
points_per_slide_floor(n, max_slides_) ==
    IF SlidesGiven(max_slides_)
    THEN Max(1, Min(MAX_BULLETS_PER_SLIDE, n \div max_slides_.int))
    ELSE MAX_BULLETS_PER_SLIDE

(* points_per_slide with max_slides ignored *)
points_per_slide_fixed(n, max_slides_) == MAX_BULLETS_PER_SLIDE

points_per_slide(n, max_slides_) ==
    IF SlidesGiven(max_slides_)
    THEN Max(1, Min(MAX_BULLETS_PER_SLIDE,
                    (n + max_slides_.int - 1) \div max_slides_.int))
    ELSE MAX_BULLETS_PER_SLIDE

(* f"{title} (Part {part_num}/{total_parts})" *)
PartTitle(title_, part_num, total_parts) ==
    title_ \o <<" ", "(", "P", "a", "r", "t", " ">> \o IntStr(part_num)
           \o <<"/">> \o IntStr(total_parts) \o <<")">>

(* SlideAt with the parts numbered from 0 *)
SlideAtZeroBased(title_, processed, pps, i) ==
    LET n == Len(processed)
        part_num == i \div pps
        total_parts == (n + pps - 1) \div pps
    IN  [title   |-> IF n > pps THEN PartTitle(title_, part_num, total_parts)
                     ELSE title_,
         content |-> SubSeq(processed, i + 1, Min(i + pps, n))]

(* The slide the loop makes at offset i of range(0, n, pps). *)
SlideAt(title_, processed, pps, i) ==
    LET n == Len(processed)
        part_num == (i \div pps) + 1
        total_parts == (n + pps - 1) \div pps
    IN  [title   |-> IF n > pps THEN PartTitle(title_, part_num, total_parts)
                     ELSE title_,
         content |-> SubSeq(processed, i + 1, Min(i + pps, n))]

(* RangeLen without the last, shorter step *)
RangeLenFloor(n, step) == n \div step

(* len(range(0, n, step)) *)
RangeLen(n, step) == (n + step - 1) \div step

(* slides_content after the loop over range(0, len(processed), pps) *)
SlidesContent(title_, processed, pps) ==
    [j \in 1..RangeLen(Len(processed), pps) |->
        SlideAt(title_, processed, pps, (j - 1) * pps)]

_distribute_content(title_, content_, max_slides_) ==
    IF content_ = <<>> THEN <<[title |-> title_, content |-> <<>>]>>
    ELSE LET processed == ProcessContent(content_, 1)
         IN  IF processed = <<>> THEN <<[title |-> title_, content |-> <<>>]>>
             ELSE SlidesContent(title_, processed,
                                points_per_slide(Len(processed), max_slides_))

(***************************************************************************)
(* The deduplication of the topics in note (src/maincont.py).  The letters *)
(* of the model's topics are the ASCII letters; \w is a letter, a digit or *)
(* '_'.                                                                    *)
(***************************************************************************)
UpperCase ==
    << "A", "B", "C", "D", "E", "F", "G", "H", "I", "J", "K", "L", "M",
       "N", "O", "P", "Q", "R", "S", "T", "U", "V", "W", "X", "Y", "Z" >>

LowerCase ==
    << "a", "b", "c", "d", "e", "f", "g", "h", "i", "j", "k", "l", "m",
       "n", "o", "p", "q", "r", "s", "t", "u", "v", "w", "x", "y", "z" >>

(* c.lower() *)
Lower(c) ==
    IF \E k \in 1..Len(UpperCase) : UpperCase[k] = c
    THEN LowerCase[CHOOSE k \in 1..Len(UpperCase) : UpperCase[k] = c]
    ELSE c

(* text.lower() *)
LowerStr(s) == [i \in 1..Len(s) |-> Lower(s[i])]

(* The characters re's \w matches. *)
WordChars ==
    {UpperCase[k] : k \in 1..Len(UpperCase)}
        \cup {LowerCase[k] : k \in 1..Len(LowerCase)}
        \cup {Digit(d) : d \in 0..9} \cup {"_"}

(* re.sub(r'[^\w\s]', '', text) *)
RemovePunctuation(s) ==
    LET Kept(c) == c \in WordChars \/ IsSpace(c)
    IN  SelectSeq(s, Kept)

normalize_for_comparison(s) ==
    Strip(CollapseSpaces(RemovePunctuation(LowerStr(s))))

(* text.split(): the words of a text, the runs of white space left out. *)
SplitWords(s) ==
    LET idx == [i \in 1..Len(s) |-> i]
        Starts(i) == ~IsSpace(s[i]) /\ (i = 1 \/ IsSpace(s[i - 1]))
        Ends(i) == ~IsSpace(s[i]) /\ (i = Len(s) \/ IsSpace(s[i + 1]))
        starts == SelectSeq(idx, Starts)
        ends == SelectSeq(idx, Ends)
    IN  [k \in 1..Len(starts) |-> SubSeq(s, starts[k], ends[k])]

(* set(text.split()) *)
WordSet(s) == {SplitWords(s)[k] : k \in 1..Len(SplitWords(s))}

(* The threshold 0.7 of are_similar, in tenths. *)
ThresholdTenths == 7

(* The length a normalized topic must exceed to be kept. *)
MinTopicLength == 5

(* are_similar with a threshold of 0.8 *)
are_similar_strict(text1, text2) ==
    LET words1 == WordSet(normalize_for_comparison(text1))
        words2 == WordSet(normalize_for_comparison(text2))
    IN  IF words1 = {} \/ words2 = {} THEN FALSE
        ELSE 10 * Cardinality(words1 \cap words2)
                 >= (ThresholdTenths + 1) * Cardinality(words1 \cup words2)

(* intersection / union >= threshold, both sides times 10 * union *)
are_similar(text1, text2) ==
    LET words1 == WordSet(normalize_for_comparison(text1))
        words2 == WordSet(normalize_for_comparison(text2))
    IN  IF words1 = {} \/ words2 = {} THEN FALSE
        ELSE 10 * Cardinality(words1 \cap words2)
                 >= ThresholdTenths * Cardinality(words1 \cup words2)

(* KeepTopic without the minimum length check *)
KeepTopicAnyLength(topic, kept) ==
    ~\E k \in 1..Len(kept) : are_similar(topic, kept[k])

(* Whether the loop over topics appends topic to filtered_topics = kept. *)
KeepTopic(topic, kept) ==
    /\ Len(normalize_for_comparison(topic)) > MinTopicLength
    /\ ~\E k \in 1..Len(kept) : are_similar(topic, kept[k])

(***************************************************************************)
(* _truncate_title                                                         *)
(***************************************************************************)
MAX_TITLE_LENGTH == 65

(* The three characters of "...". *)
Ellipsis == <<".", ".", ".">>

(* WordFits with the whole of MAX_TITLE_LENGTH given to the words *)
WordFitsNoReserve(truncated_, word) ==
    Len(truncated_ \o <<" ">> \o word) <= MAX_TITLE_LENGTH

(* len(truncated + " " + word) <= self.MAX_TITLE_LENGTH - 3 *)
WordFits(truncated_, word) ==
    Len(truncated_ \o <<" ">> \o word) <= MAX_TITLE_LENGTH - Len(Ellipsis)

RECURSIVE TruncateLoop(_, _, _)
(* truncated after `for word in words[k - 1:]`, with its break *)
TruncateLoop(words, k, truncated_) ==
    IF k > Len(words) THEN truncated_
    ELSE IF WordFits(truncated_, words[k])
         THEN TruncateLoop(words, k + 1,
                           IF truncated_ # <<>> THEN truncated_ \o <<" ">> \o words[k]
                           ELSE words[k])
         ELSE truncated_

_truncate_title(t) ==
    LET title_ == _validate_and_clean_text_input(t)
    IN  IF Len(title_) <= MAX_TITLE_LENGTH THEN title_
        ELSE LET truncated_ == TruncateLoop(SplitWords(title_), 1, <<>>)
             IN  IF truncated_ # title_ THEN truncated_ \o Ellipsis
                 ELSE SubSeq(title_, 1, Min(Len(title_), MAX_TITLE_LENGTH - 3))
                          \o Ellipsis

(***************************************************************************)
(* _process_text_formatting and _apply_text_formatting.  Their patterns    *)
(* are spans: k marker characters m, a run of at least one character that  *)
(* is no m, and k characters m again.  SpanEnd is where the span that      *)
(* starts at i ends, 0 when none starts there; with `alone` the span may   *)
(* neither follow nor be followed by another m (the look-behind and the    *)
(* look-ahead of the italic pattern).                                      *)
(***************************************************************************)
SpanEnd(s, i, m, k, alone) ==
    LET e == FirstAt(s, m, i + k)
    IN  IF /\ StartsWithAt(s, i, Rep(m, k))
           /\ e > i + k
           /\ StartsWithAt(s, e, Rep(m, k))
           /\ alone => /\ (i = 1 \/ s[i - 1] # m)
                       /\ (e + k > Len(s) \/ s[e + k] # m)
        THEN e + k - 1
        ELSE 0

(* The group of \s*([^m]+?)\s*: the inside of a span without the white     *)
(* space around it; of an inside of white space only, its last character.  *)
SpanGroup(inside) ==
    IF Strip(inside) = <<>> THEN <<inside[Len(inside)]>> ELSE Strip(inside)

RECURSIVE TrimSpansFrom(_, _, _, _, _, _, _)
TrimSpansFrom(s, i, m, k, alone, left, right) ==
    IF i > Len(s) THEN <<>>
    ELSE LET e == SpanEnd(s, i, m, k, alone)
         IN  IF e = 0
             THEN <<s[i]>> \o TrimSpansFrom(s, i + 1, m, k, alone, left, right)
             ELSE left \o SpanGroup(SubSeq(s, i + k, e - k)) \o right
                      \o TrimSpansFrom(s, e + 1, m, k, alone, left, right)

(* re.sub of a span pattern: the group between left and right. *)
TrimSpans(s, m, k, alone, left, right) ==
    IF ~Has(s, m) THEN s ELSE TrimSpansFrom(s, 1, m, k, alone, left, right)

_process_text_formatting(s) ==
    IF s = <<>> THEN <<>>
    ELSE LET t0 == _validate_and_clean_text_input(StrVal(s))
             t1 == TrimSpans(t0, "*", 2, FALSE, <<"*", "*">>, <<"*", "*">>)
             t2 == TrimSpans(t1, "*", 1, TRUE, <<"*">>, <<"*">>)
             t3 == TrimSpans(t2, "_", 2, FALSE, <<"*", "*">>, <<"*", "*">>)
         IN  TrimSpans(t3, "~", 2, FALSE, <<>>, <<>>)

RECURSIVE SplitSpansFrom(_, _, _, _, _)
(* re.split of a span pattern in a group: the texts between the spans and  *)
(* the spans, by turns; start is where the text before the next span began. *)
SplitSpansFrom(s, i, start, m, k) ==
    IF i > Len(s) THEN <<SubSeq(s, start, Len(s))>>
    ELSE LET e == SpanEnd(s, i, m, k, FALSE)
         IN  IF e = 0 THEN SplitSpansFrom(s, i + 1, start, m, k)
             ELSE <<SubSeq(s, start, i - 1), SubSeq(s, i, e)>>
                      \o SplitSpansFrom(s, e + 1, e + 1, m, k)

DEFAULT_CONTENT_FONT_SIZE == 16

(* A run as paragraph.add_run() gives it, with its text and style set;     *)
(* size 0 and name "" stand for a font size and name not set.              *)
Run(text_, bold, italic) ==
    [text |-> text_, bold |-> bold, italic |-> italic, size |-> 0, name |-> ""]

(* run.font.size = Pt(self.DEFAULT_CONTENT_FONT_SIZE); run.font.name = ... *)
WithFont(run) ==
    [run EXCEPT !.size = DEFAULT_CONTENT_FONT_SIZE, !.name = "Calibri"]

(* part.startswith(stars) and part.endswith(stars) and len(part) > least *)
Marked(part, stars, least) ==
    /\ StartsWithAt(part, 1, stars)
    /\ StartsWithAt(part, Len(part) - Len(stars) + 1, stars)
    /\ Len(part) > least

(* The runs the inner loop makes of one part that is not bold: the run     *)
(* added for the part takes the first italic_part, every later italic_part *)
(* that is not empty a run of its own.                                     *)
ItalicRuns(part) ==
    LET italic_parts == SplitSpansFrom(part, 1, 1, "*", 1)
        NotEmpty(x) == x # <<>>
        later == SelectSeq(SubSeq(italic_parts, 2, Len(italic_parts)), NotEmpty)
        RunOf(x) == IF Marked(x, <<"*">>, 2) /\ ~StartsWithAt(x, 1, <<"*", "*">>)
                    THEN Run(SubSeq(x, 2, Len(x) - 1), FALSE, TRUE)
                    ELSE Run(x, FALSE, FALSE)
    IN  <<IF italic_parts[1] = <<>> THEN Run(<<>>, FALSE, FALSE)
          ELSE RunOf(italic_parts[1])>>
            \o [j \in 1..Len(later) |-> RunOf(later[j])]

(* The runs one turn of `for part in parts` adds; the font is set on the   *)
(* run the name `run` is bound to at the end of the turn, the last one.    *)
PartRuns(part) ==
    IF part = <<>> THEN <<>>
    ELSE LET made == IF Marked(part, <<"*", "*">>, 4)
                     THEN <<Run(SubSeq(part, 3, Len(part) - 2), TRUE, FALSE)>>
                     ELSE ItalicRuns(part)
         IN  [j \in 1..Len(made) |->
                 IF j = Len(made) THEN WithFont(made[j]) ELSE made[j]]

(* The runs of the paragraph when _apply_text_formatting returns, given    *)
(* the runs it had before.                                                 *)
_apply_text_formatting(paragraph, original_text) ==
    IF original_text = <<>> THEN paragraph
    ELSE LET parts == SplitSpansFrom(_process_text_formatting(original_text),
                                     1, 1, "*", 2)
         IN  IF \A j \in 1..Len(parts) : Strip(parts[j]) = <<>>
             THEN <<WithFont(Run(original_text, FALSE, FALSE))>>
             ELSE Flatten([j \in 1..Len(parts) |-> PartRuns(parts[j])], 1)

(***************************************************************************)
(* The slides of self.ppt.  A slide is written as a record: its kind (the  *)
(* slide of a template, a title, a section or a closing slide), the text   *)
(* of its title shape, the texts of its body placeholder, and the          *)
(* arguments of the call that added it.  The layouts are taken to have a   *)
(* title shape and a body placeholder.                                     *)
(***************************************************************************)

(* The length a cleaned bullet must exceed to be shown by add_section_slide. *)
MinBulletLength == 10

add_title_slide(title_, subtitle) ==
    [kind    |-> "title",
     title   |-> _validate_and_clean_text_input(StrVal(title_)),
     content |-> IF subtitle # <<>>
                 THEN <<_validate_and_clean_text_input(StrVal(subtitle))>>
                 ELSE <<>>,
     args    |-> [title |-> title_, content |-> <<subtitle>>]]

add_section_slide(title_, content_) ==
    LET cleaned_item == [k \in 1..Len(content_) |->
                            _validate_and_clean_text_input(StrVal(PyStr(content_[k])))]
        Long(item) == item # <<>> /\ Len(item) > MinBulletLength
        cleaned_content == SelectSeq(cleaned_item, Long)
    IN  [kind    |-> "section",
         title   |-> _truncate_title(
                         StrVal(_validate_and_clean_text_input(StrVal(title_)))),
         content |-> SubSeq(cleaned_content, 1,
                            Min(Len(cleaned_content), MAX_BULLETS_PER_SLIDE)),
         args    |-> [title |-> title_, content |-> content_]]

add_closing_slide(title_, content_) ==
    [kind    |-> "closing",
     title   |-> _validate_and_clean_text_input(StrVal(title_)),
     content |-> IF content_ # <<>>
                 THEN <<_validate_and_clean_text_input(StrVal(content_))>>
                 ELSE <<>>,
     args    |-> [title |-> title_, content |-> <<content_>>]]

(***************************************************************************)
(* generate_from_content.  The dict content is a record; its key           *)
(* "sections" may be missing.                                              *)
(***************************************************************************)

(* content.get("sections", []) *)
SectionsOf(dict) == IF dict.has_sections THEN dict.sections ELSE <<>>

(* max(1, available_slides // len(sections)), with its two lines above *)
max_slides_for_section(dict) ==
    LET target_slides == Max(1, dict.target_slides)
        available_slides == Max(1, target_slides - 2)
    IN  Max(1, available_slides \div Len(SectionsOf(dict)))

(* The slides `for slide_title, slide_content in distributed_content` adds. *)
SectionSlides(distributed_content) ==
    [j \in 1..Len(distributed_content) |->
        add_section_slide(distributed_content[j].title,
                          [k \in 1..Len(distributed_content[j].content) |->
                              StrVal(distributed_content[j].content[k])])]

(***************************************************************************)
(* engine and the loops of note (src/maincont.py).  The remote call is an  *)
(* outcome given to the step: an error, or the lines clean_text_lines      *)
(* makes of the response.                                                  *)
(***************************************************************************)
generic_phrases ==
    { <<"v", "e", "r", "y", " ", "i", "m", "p", "o", "r", "t", "a",
        "n", "t">>,
      <<"q", "u", "i", "t", "e", " ", "u", "s", "e", "f", "u", "l">>,
      <<"e", "x", "t", "r", "e", "m", "e", "l", "y", " ", "h", "e",
        "l", "p", "f", "u", "l">>,
      <<"i", "t", " ", "i", "s", " ", "n", "o", "t", "e", "d", " ",
        "t", "h", "a", "t">> }

(* The bullet engine returns when the call fails. *)
FallbackBullet(topic) ==
    <<"D", "e", "t", "a", "i", "l", "e", "d", " ", "i", "n", "f", "o",
      "r", "m", "a", "t", "i", "o", "n", " ", "a", "n", "d", " ", "k",
      "e", "y", " ", "c", "o", "n", "c", "e", "p", "t", "s", " ", "r",
      "e", "l", "a", "t", "e", "d", " ", "t", "o", " ">>
        \o topic \o
    <<" ", "w", "i", "l", "l", " ", "b", "e", " ", "c", "o", "v", "e",
      "r", "e", "d", " ", "i", "n", " ", "t", "h", "i", "s", " ", "s",
      "e", "c", "t", "i", "o", "n">>

(* The bullets of the band: 50 to 200 characters, no generic phrase, at    *)
(* least 8 words.                                                          *)
QualityBullet(b) ==
    /\ 50 <= Len(b) /\ Len(b) <= 200
    /\ LET low == SubSeq(LowerStr(b), 1, Len(b))
       IN  ~\E phrase \in generic_phrases : Find(low, phrase, 1) # 0
    /\ WordCount(b) >= 8

(* BackupBullet for every line *)
BackupBulletAny(b) == TRUE

(* `len(b.split()) >= 5`: the lines taken when fewer than 3 bullets are of *)
(* the band.                                                               *)
BackupBullet(b) == WordCount(b) >= 5

engine(topic, outcome) ==
    IF outcome.error THEN <<FallbackBullet(topic)>>
    ELSE LET cleaned_bullets == outcome.lines
             quality == SelectSeq(cleaned_bullets, QualityBullet)
             backup_bullets == SelectSeq(cleaned_bullets, BackupBullet)
             filtered_bullets ==
                 IF Len(quality) < 3
                 THEN SubSeq(backup_bullets, 1, Min(6, Len(backup_bullets)))
                 ELSE quality
         IN  SubSeq(filtered_bullets, 1, Min(8, Len(filtered_bullets)))

(* The topics a page adds to topics: none when extract_text or             *)
(* send_content fails or the page is blank.                                *)
PageTopics(outcome) == IF outcome.kind = "ok" THEN outcome.topics ELSE <<>>

(* SectionAccepted for a list of one bullet or more *)
SectionAcceptedAny(slide_bullets) == Len(slide_bullets) >= 1

(* SectionAccepted for a list of four bullets or more *)
SectionAcceptedFour(slide_bullets) == Len(slide_bullets) >= 4

(* `slide_bullets and len(slide_bullets) >= 3` *)
SectionAccepted(slide_bullets) ==
    slide_bullets # <<>> /\ Len(slide_bullets) >= 3

(* `template_name="green"` in the call of EnhancedPPTGenerator *)
RenderedTemplate == <<"g", "r", "e", "e", "n">>

(* re.sub(r'[^\w\s-]', '', template_name.replace('.pptx', ''))              *)
(*     .replace(' ', '_')                                                  *)
safe_template(name) ==
    LET Kept(c) == c \in WordChars \cup WhiteSpace \cup {"-"}
    IN  Replace(SelectSeq(Replace(name, <<".", "p", "p", "t", "x">>, <<>>), Kept), <<" ">>, <<"_">>)

(* SectionsGenerated also for no section *)
SectionsGeneratedAlways(sections_) == TRUE

(* `if not sections: return`, negated *)
SectionsGenerated(sections_) == sections_ # <<>>

(***************************************************************************)
(* The state: the arguments and the results of the calls.                 *)
(*   pc              where the call stands: "call", "return", or "again"  *)
(*                   once the result has been cleaned a second time       *)
(*   text, cleaned   _validate_and_clean_text_input: its argument and the *)
(*                   results of cleaning it and of cleaning the result    *)
(*   bullet, chunks  _split_long_bullet: its argument and its result      *)
(*   title, content, max_slides, slides_content                           *)
(*                   _distribute_content: its arguments and its result    *)
(*   topics, filtered_topics, topic_i                                      *)
(*                   the deduplication loop of note: the topics found, the *)
(*                   topics kept so far and the index of the next topic    *)
(*   raw_title, shown_title                                                *)
(*                   _truncate_title: its argument and its result          *)
(*   content_dict, ppt, section_idx, actual_slides                         *)
(*                   generate_from_content: its argument, the slides of    *)
(*                   self.ppt, the index of the next section, and the      *)
(*                   slide count it returns                                *)
(*   original_text, runs                                                   *)
(*                   _apply_text_formatting: its text argument and the     *)
(*                   runs of its paragraph                                 *)
(*   template_name, pdf, page_i, page_log, topic_p, topic_log, sections,   *)
(*   render          note: its argument template_name, the PDF (whether it can be read, its number of  *)
(*                   pages), the index of the next page, what each page    *)
(*                   gave, the index of the next topic, what each topic    *)
(*                   gave, the sections, and how often the renderer was    *)
(*                   made, generate_from_content called and a file saved,  *)
(*                   with the template, the sections and the file name     *)
(*                   they were given                                       *)
(***************************************************************************)
VARIABLES pc, text, cleaned, bullet, chunks,
          title, content, max_slides, slides_content,
          topics, filtered_topics, topic_i,
          raw_title, shown_title,
          content_dict, ppt, section_idx, actual_slides,
          original_text, runs,
          template_name, pdf, page_i, page_log, topic_p, topic_log, sections, render

vars == <<pc, text, cleaned, bullet, chunks,
          title, content, max_slides, slides_content,
          topics, filtered_topics, topic_i,
          raw_title, shown_title,
          content_dict, ppt, section_idx, actual_slides,
          original_text, runs,
          template_name, pdf, page_i, page_log, topic_p, topic_log, sections, render>>

normalizeVars == <<text, cleaned>>

splitVars == <<bullet, chunks>>

distributeVars == <<title, content, max_slides, slides_content>>

NoNormalize == text = None /\ cleaned = <<>>

NoSplit == bullet = <<>> /\ chunks = <<>>

NoDistribute ==
    title = <<>> /\ content = <<>> /\ max_slides = None /\ slides_content = <<>>

dedupeVars == <<topics, filtered_topics, topic_i>>

NoDedupe == topics = <<>> /\ filtered_topics = <<>> /\ topic_i = 0

(* The variables of the text functions of src/emotion.py modelled first. *)
coreVars == <<normalizeVars, splitVars, distributeVars>>

NoCore == NoNormalize /\ NoSplit /\ NoDistribute

(* The variables of the other functions. *)
truncateVars == <<raw_title, shown_title>>

NoTruncate == raw_title = None /\ shown_title = <<>>

generateVars == <<content_dict, ppt, section_idx, actual_slides>>

NoGenerate ==
    content_dict = <<>> /\ ppt = <<>> /\ section_idx = 0 /\ actual_slides = 0

formatVars == <<original_text, runs>>

NoFormat == original_text = <<>> /\ runs = <<>>

noteVars ==
    <<template_name, pdf, page_i, page_log, topic_p, topic_log, sections, render>>

NoRender ==
    [made |-> 0, generated |-> 0, saved |-> 0,
     template |-> <<>>, passed |-> <<>>, file_template |-> <<>>]

NoNote ==
    /\ template_name = <<>>
    /\ pdf = [readable |-> FALSE, total_pages |-> 0]
    /\ page_i = 0 /\ page_log = <<>> /\ topic_p = 0 /\ topic_log = <<>>
    /\ sections = <<>> /\ render = NoRender

laterVars == <<dedupeVars, truncateVars, generateVars, formatVars, noteVars>>

NoLater == NoDedupe /\ NoTruncate /\ NoGenerate /\ NoFormat /\ NoNote

(* ------------------------------ inputs -------------------------------- *)

(* The most fragments a text given to the normalizer is made of. *)
MaxFrags == 3

(* The largest absolute value of an int given where a text is expected. *)
MaxInt == 12

(* The most items of a list given where a text is expected, and the       *)
(* largest of them.                                                       *)
MaxListLen == 2

MaxListItem == 2

Fragments ==
    { <<"&", "a", "m", "p", ";">>, <<"a", "m", "p", ";">>, <<"&", "a">>,
      <<"m", "p", ";">>, <<"<", "b", ">">>, <<"<", "s", "p", "a", "n", ">">>,
      <<"<", "/", "s", "p", "a", "n", ">">>, <<"\\">>, <<"*">>, <<" ">>,
      <<"&", "n", "b", "s", "p", ";">>, <<"b">> }

StrInputs ==
    {Flatten(f, 1) : f \in UNION {[1..k -> Fragments] : k \in 0..MaxFrags}}

NonStrInputs ==
    {None} \cup {IntVal(n) : n \in (-MaxInt)..MaxInt}
           \cup {ListVal(l) : l \in UNION {[1..k -> 0..MaxListItem] : k \in 0..MaxListLen}}

(* A sentence or a clause of n characters: n - 1 times c, then end. *)
Piece(c, n, end) == Rep(c, n - 1) \o <<end>>

(* The most pieces of a text given to _split_long_bullet. *)
MaxPieces == 3

PieceLens == {2, 90, 100, 260}

PieceEnds == {".", ","}

PieceShapes == [len : PieceLens, end : PieceEnds]

(* The pieces of the shapes, separated by one space. *)
PieceText(shapes) ==
    Join([k \in 1..Len(shapes) |-> Piece("a", shapes[k].len, shapes[k].end)],
         <<" ">>, 1, Len(shapes))

(* How many one-character clauses the texts of many clauses have. *)
ManyClauses == {140, 151}

(* n clauses ",", separated by one space. *)
ClausesText(n) == Join(Rep(<<",">>, n), <<" ">>, 1, n)

BulletInputs ==
    {PieceText(sh) : sh \in UNION {[1..k -> PieceShapes] : k \in 0..MaxPieces}}
        \cup {ClausesText(n) : n \in ManyClauses}

(* The most bullets of a section given to _distribute_content. *)
MaxBullets == 12

(* The largest max_slides given, beside MaxBullets itself. *)
MaxSlidesArg == 4

(* The special bullet stands among the first MaxSpecialPos or is the last. *)
MaxSpecialPos == 3

Titles == { <<"a", "b">>, <<"a", " ", "b", "s">> }

ShortBullet(i) == StrVal(<<"b">> \o Decimal(i))

SpecialKinds == {"empty", "blank", "markup", "int", "mid", "long"}

SpecialBullet(kind) ==
    CASE kind = "empty"  -> StrVal(<<>>)
      [] kind = "blank"  -> StrVal(<<" ", "\t">>)
      [] kind = "markup" -> StrVal(<<"<", "b", ">", "&", "a", "m", "p", ";", "b",
                                     "<", "/", "b", ">">>)
      [] kind = "int"    -> IntVal(7)
      [] kind = "mid"    -> StrVal(Rep("a", 130))
      [] kind = "long"   -> StrVal(Piece("a", 130, ".") \o <<" ">>
                                       \o Piece("b", 130, "."))

(* n bullets, the p-th of them (if any) of the special kind. *)
ContentOf(n, p, kind) ==
    [i \in 1..n |-> IF i = p THEN SpecialBullet(kind) ELSE ShortBullet(i)]

MaxSlidesInputs ==
    {None} \cup {IntVal(m) : m \in ((-1)..MaxSlidesArg) \cup {MaxBullets}}

(* --------------------- _validate_and_clean_text_input ------------------ *)

InitNormalize ==
    /\ pc = "call"
    /\ text \in {StrVal(s) : s \in StrInputs} \cup NonStrInputs
    /\ cleaned = <<>>
    /\ NoSplit /\ NoDistribute /\ NoLater

Normalize ==
    /\ pc = "call"
    /\ cleaned' = <<_validate_and_clean_text_input(text)>>
    /\ pc' = "return"
    /\ UNCHANGED <<text, splitVars, distributeVars, laterVars>>

(* The result is given to _validate_and_clean_text_input once more. *)
NormalizeAgain ==
    /\ pc = "return"
    /\ cleaned' = Append(cleaned, _validate_and_clean_text_input(StrVal(cleaned[1])))
    /\ pc' = "again"
    /\ UNCHANGED <<text, splitVars, distributeVars, laterVars>>

NextNormalize == Normalize \/ NormalizeAgain

SpecNormalize == InitNormalize /\ [][NextNormalize]_vars

(* --------------------------- _split_long_bullet ------------------------ *)

InitSplit ==
    /\ pc = "call"
    /\ bullet \in BulletInputs
    /\ chunks = <<>>
    /\ NoNormalize /\ NoDistribute /\ NoLater

Split ==
    /\ pc = "call"
    /\ chunks' = _split_long_bullet(bullet)
    /\ pc' = "return"
    /\ UNCHANGED <<bullet, normalizeVars, distributeVars, laterVars>>

NextSplit == Split

SpecSplit == InitSplit /\ [][NextSplit]_vars

(* -------------------------- _distribute_content ------------------------ *)

InitDistribute ==
    /\ pc = "call"
    /\ title \in Titles
    /\ \E n \in 0..MaxBullets, p \in 0..MaxBullets :
          /\ p <= n
          /\ (p <= MaxSpecialPos \/ p = n)
          /\ \E kind \in (IF p = 0 THEN {"none"} ELSE SpecialKinds) :
                content = ContentOf(n, p, kind)
    /\ max_slides \in MaxSlidesInputs
    /\ slides_content = <<>>
    /\ NoNormalize /\ NoSplit /\ NoLater

Distribute ==
    /\ pc = "call"
    /\ slides_content' = _distribute_content(title, content, max_slides)
    /\ pc' = "return"
    /\ UNCHANGED <<title, content, max_slides, normalizeVars, splitVars, laterVars>>

NextDistribute == Distribute

SpecDistribute == InitDistribute /\ [][NextDistribute]_vars

(* ------------------- the deduplication loop of note -------------------- *)

(* The most topics the pages give. *)
MaxTopics == 3

(* The text written with one character per letter of the string. *)
Chars(str) ==
    CASE str = "T1" -> <<"N","e","t","w","o","r","k"," ","S","e","c","u","r","i","t","y",
                         " ","B","a","s","i","c","s">>
      [] str = "T2" -> <<"B","a","s","i","c","s"," ","o","f"," ","N","e","t","w","o","r","k",
                         " ","S","e","c","u","r","i","t","y">>
      [] str = "T3" -> <<"Q","u","a","n","t","u","m"," ","C","o","m","p","u","t","i","n","g">>
      [] str = "T4" -> <<"N","E","T","W","O","R","K"," ","s","e","c","u","r","i","t","y",",",
                         " ","(","b","a","s","i","c","s",")","!">>
      [] str = "T5" -> <<"N","e","t","w","o","r","k"," ","S","e","c","u","r","i","t","y">>
      [] str = "T6" -> <<"a","b","c","d","e"," ","!">>
      [] str = "T7" -> <<"N","e","t","s">>
      [] str = "T8" -> <<"a"," ","b"," ","c"," ","d"," ","e"," ","f"," ","g">>
      [] str = "T9" -> <<"a"," ","b"," ","c"," ","d"," ","e"," ","f"," ","g"," ","h"," ","i",
                         " ","j">>

(* The lines send_content can give: stripped, longer than 3 characters. *)
TopicPool == {Chars(t) : t \in {"T1", "T2", "T3", "T4", "T5", "T6", "T7", "T8", "T9"}}

InitDedupe ==
    /\ pc = "dedupe"
    /\ topics \in UNION {[1..k -> TopicPool] : k \in 1..MaxTopics}
    /\ filtered_topics = <<>>
    /\ topic_i = 1
    /\ NoCore /\ NoTruncate /\ NoGenerate /\ NoFormat /\ NoNote

(* One turn of `for topic in topics`. *)
DedupeTopic ==
    /\ pc = "dedupe"
    /\ topic_i <= Len(topics)
    /\ filtered_topics' =
           IF KeepTopic(topics[topic_i], filtered_topics)
           THEN Append(filtered_topics, topics[topic_i])
           ELSE filtered_topics
    /\ topic_i' = topic_i + 1
    /\ pc' = IF topic_i = Len(topics) THEN "deduped" ELSE "dedupe"
    /\ UNCHANGED <<topics, coreVars, truncateVars, generateVars, formatVars, noteVars>>

NextDedupe == DedupeTopic

SpecDedupe == InitDedupe /\ [][NextDedupe]_vars

(* ----------------------------- _truncate_title ------------------------ *)

(* The most words of a title given to _truncate_title. *)
MaxWords == 3

WordLens == {1, 2, 30, 31, 60, 61, 62, 63, 66}

(* The words of the lengths lens, the k-th of the k-th letter, with one    *)
(* space between them.                                                     *)
TitleOf(lens) ==
    Join([k \in 1..Len(lens) |-> Rep(LowerCase[k], lens[k])], <<" ">>, 1, Len(lens))

(* "A " * 40 *)
ManyWords == Flatten(Rep(<<"A", " ">>, 40), 1)

(* A title in markup, with white space to collapse. *)
MarkupTitle ==
    <<" ", "<", "b", ">">> \o Rep("a", 10) \o <<" ", "\t">> \o Rep("b", 10)
        \o <<"<", "/", "b", ">", " ">> \o Rep("c", 5)

TitleInputs ==
    {StrVal(TitleOf(lens)) : lens \in UNION {[1..k -> WordLens] : k \in 0..MaxWords}}
        \cup {StrVal(ManyWords), StrVal(MarkupTitle), None}

InitTruncate ==
    /\ pc = "call"
    /\ raw_title \in TitleInputs
    /\ shown_title = <<>>
    /\ NoCore /\ NoDedupe /\ NoGenerate /\ NoFormat /\ NoNote

Truncate ==
    /\ pc = "call"
    /\ shown_title' = _truncate_title(raw_title)
    /\ pc' = "return"
    /\ UNCHANGED <<raw_title, coreVars, dedupeVars, generateVars, formatVars, noteVars>>

NextTruncate == Truncate

SpecTruncate == InitTruncate /\ [][NextTruncate]_vars

(* -------------------------- generate_from_content ---------------------- *)

(* The most sections of a content dict. *)
MaxSections == 2

(* The most slides the template has put into self.ppt. *)
MaxTemplateSlides == 1

(* A bullet long enough to be shown, the i-th of its section. *)
LongBullet(i) == StrVal(Rep("b", 11) \o Decimal(i))

SectionPool ==
    { [title |-> <<"a", "b">>, content |-> <<>>],
      [title |-> <<"a", "b">>, content |-> [i \in 1..3 |-> LongBullet(i)]],
      [title |-> <<"<", "b", ">", "a", " ", "b", "s">>,
       content |-> [i \in 1..7 |-> IF i = 2 THEN ShortBullet(i) ELSE LongBullet(i)]],
      [title |-> TitleOf(<<30, 31, 5>>),
       content |-> <<LongBullet(1), SpecialBullet("blank"), SpecialBullet("long")>>] }

TargetSlides == {1, 4, 15}

ContentDicts ==
    { [title |-> <<"a", "b">>, subtitle |-> sub, target_slides |-> t,
       has_sections |-> has, sections |-> secs, call_to_action |-> sub] :
          sub \in {<<>>, <<"b", "s">>}, t \in TargetSlides, has \in BOOLEAN,
          secs \in UNION {[1..k -> SectionPool] : k \in 0..MaxSections} }

(* A slide the template came with. *)
TemplateSlide ==
    [kind |-> "template", title |-> <<>>, content |-> <<>>,
     args |-> [title |-> <<>>, content |-> <<>>]]

InitGenerate ==
    /\ pc = "generate"
    /\ content_dict \in {d \in ContentDicts : d.has_sections \/ d.sections = <<>>}
    /\ ppt \in {Rep(TemplateSlide, n) : n \in 0..MaxTemplateSlides}
    /\ section_idx = 0
    /\ actual_slides = 0
    /\ NoCore /\ NoDedupe /\ NoTruncate /\ NoFormat /\ NoNote

(* The title slide; with no sections the call returns here. *)
GenerateTitle ==
    /\ pc = "generate"
    /\ ppt' = Append(ppt, add_title_slide(
                              _validate_and_clean_text_input(StrVal(content_dict.title)),
                              _validate_and_clean_text_input(StrVal(content_dict.subtitle))))
    /\ IF SectionsOf(content_dict) = <<>>
       THEN /\ actual_slides' = Len(ppt')
            /\ pc' = "returned"
            /\ UNCHANGED section_idx
       ELSE /\ section_idx' = 1
            /\ pc' = "sections"
            /\ UNCHANGED actual_slides
    /\ UNCHANGED <<content_dict, coreVars, dedupeVars, truncateVars, formatVars, noteVars>>

(* One turn of `for section_idx, section in enumerate(sections)`. *)
GenerateSection ==
    /\ pc = "sections"
    /\ LET sections_ == SectionsOf(content_dict)
           section == sections_[section_idx]
           section_title == _validate_and_clean_text_input(StrVal(section.title))
       IN  /\ ppt' = IF section.content = <<>> THEN ppt
                     ELSE ppt \o SectionSlides(
                              _distribute_content(section_title, section.content,
                                  IntVal(max_slides_for_section(content_dict))))
           /\ section_idx' = section_idx + 1
           /\ pc' = IF section_idx = Len(sections_) THEN "closing" ELSE "sections"
    /\ UNCHANGED <<content_dict, actual_slides, coreVars, dedupeVars, truncateVars, formatVars, noteVars>>

(* The closing slide and the return. *)
GenerateClosing ==
    /\ pc = "closing"
    /\ ppt' = Append(ppt, add_closing_slide(
                              <<"T", "h", "a", "n", "k", " ", "Y", "o", "u">>,
                              _validate_and_clean_text_input(
                                  StrVal(content_dict.call_to_action))))
    /\ actual_slides' = Len(ppt')
    /\ pc' = "returned"
    /\ UNCHANGED <<content_dict, section_idx, coreVars, dedupeVars, truncateVars, formatVars, noteVars>>

NextGenerate == GenerateTitle \/ GenerateSection \/ GenerateClosing

SpecGenerate == InitGenerate /\ [][NextGenerate]_vars

(* ------------------------- _apply_text_formatting ---------------------- *)

(* The most fragments a text given to _apply_text_formatting is made of. *)
MaxMarks == 5

MarkFragments == { <<"*", "*">>, <<"*">>, <<"a">>, <<" ">>, <<"_", "_">> }

(* "This is **bold** and *italic* text" *)
BoldAndItalic ==
    <<"T", "h", "i", "s", " ", "i", "s", " ", "*", "*", "b", "o", "l", "d", "*", "*",
      " ", "a", "n", "d", " ", "*", "i", "t", "a", "l", "i", "c", "*", " ",
      "t", "e", "x", "t">>

FormatInputs ==
    {Flatten(f, 1) : f \in UNION {[1..k -> MarkFragments] : k \in 0..MaxMarks}}
        \cup { BoldAndItalic,
               <<"~", "~", " ", "a", " ", "~", "~", " ", "*", "*", "b", "*", "a", "*", "*">>,
               <<"<", "b", ">", "*", "*", "a", "*", "*", "<", "/", "b", ">", " ",
                 "\\", "*", "b", "\\", "*">> }

InitFormat ==
    /\ pc = "call"
    /\ original_text \in FormatInputs
    /\ runs = <<>>
    /\ NoCore /\ NoDedupe /\ NoTruncate /\ NoGenerate /\ NoNote

Format ==
    /\ pc = "call"
    /\ runs' = _apply_text_formatting(runs, original_text)
    /\ pc' = "return"
    /\ UNCHANGED <<original_text, coreVars, dedupeVars, truncateVars, generateVars, noteVars>>

NextFormat == Format

SpecFormat == InitFormat /\ [][NextFormat]_vars

(* ---------------------------------- note ------------------------------- *)

(* The most pages of the PDF. *)
MaxPages == 2

(* n words of len characters, one space between them. *)
WordsOf(n, len) == Join(Rep(Rep("a", len), n), <<" ">>, 1, n)

(* What a page can give: extract_text fails, the page is blank,            *)
(* send_content fails (and returns []), or it returns topics.              *)
PageOutcomes ==
    { [kind |-> k, topics |-> <<>>] : k \in {"extract_error", "blank", "send_error", "ok"} }
        \cup { [kind |-> "ok", topics |-> t] :
                  t \in { <<Chars("T1"), Chars("T2"), Chars("T3")>>, <<Chars("T7")>> } }

(* What the call of engine can meet: an error, or cleaned lines: bullets   *)
(* of the band (8 words, 55 characters), with a generic phrase, too long   *)
(* (207 characters), of 5 words and of 2 words.                            *)
EngineOutcomes ==
    LET Q == WordsOf(8, 6)
        G == <<"v", "e", "r", "y", " ", "i", "m", "p", "o", "r", "t", "a", "n", "t">> \o <<" ">> \o WordsOf(8, 6)
        L == WordsOf(8, 25)
        S == WordsOf(5, 5)
        T == WordsOf(2, 3)
    IN  { [error |-> TRUE, lines |-> <<>>] }
            \cup { [error |-> FALSE, lines |-> l] :
                      l \in { <<>>, <<Q, Q, Q>>, <<Q, Q, S, S>>, Rep(Q, 9),
                              <<Q, G, L, T>>, <<T, T, S>> } }

(* What making the renderer, generate_from_content and save can meet. *)
RenderOutcomes == {"ok", "init_error", "generate_error", "save_error"}

(* note(pdf_file): template_name has its default. *)
InitNote ==
    /\ pc = "note"
    /\ template_name = <<"d", "e", "f", "a", "u", "l", "t">>
    /\ pdf \in [readable : BOOLEAN, total_pages : 0..MaxPages]
    /\ page_i = 0 /\ page_log = <<>> /\ topic_p = 1 /\ topic_log = <<>>
    /\ sections = <<>> /\ render = NoRender
    /\ topics = <<>> /\ filtered_topics = <<>> /\ topic_i = 1
    /\ NoCore /\ NoTruncate /\ NoGenerate /\ NoFormat

(* open(pdf_file), PdfReader(file), len(reader.pages); `if not topics`     *)
(* for a PDF without pages.                                                *)
NoteOpen ==
    /\ pc = "note"
    /\ IF pdf.readable /\ pdf.total_pages > 0
       THEN pc' = "pages" /\ page_i' = 1
       ELSE pc' = "done" /\ UNCHANGED page_i
    /\ UNCHANGED <<template_name, pdf, page_log, topic_p, topic_log, sections, render,
                   dedupeVars, coreVars, truncateVars, generateVars, formatVars>>

(* One turn of `for i in range(total_pages)`; after the last one           *)
(* `if not topics: return`.                                                *)
NotePage ==
    /\ pc = "pages"
    /\ \E outcome \in PageOutcomes :
          /\ topics' = topics \o PageTopics(outcome)
          /\ page_log' = Append(page_log, [page |-> page_i, kind |-> outcome.kind,
                                           found |-> Len(PageTopics(outcome))])
    /\ page_i' = page_i + 1
    /\ pc' = IF page_i < pdf.total_pages THEN "pages"
             ELSE IF topics' = <<>> THEN "done" ELSE "dedupe"
    /\ UNCHANGED <<template_name, pdf, topic_p, topic_log, sections, render,
                   filtered_topics, topic_i,
                   coreVars, truncateVars, generateVars, formatVars>>

(* One turn of `for p, topic in enumerate(filtered_topics)`;
   topic_p is p + 1. *)
NoteTopic ==
    /\ pc = "deduped"
    /\ topic_p <= Len(filtered_topics)
    /\ \E outcome \in EngineOutcomes :
          LET topic == filtered_topics[topic_p]
              slide_bullets == engine(topic, outcome)
          IN  /\ sections' = IF SectionAccepted(slide_bullets)
                             THEN Append(sections, [title |-> topic,
                                                    content |-> slide_bullets])
                             ELSE sections
              /\ topic_log' = Append(topic_log,
                                     [topic |-> topic, error |-> outcome.error,
                                      bullets |-> Len(slide_bullets),
                                      section |-> SectionAccepted(slide_bullets)])
    /\ topic_p' = topic_p + 1
    /\ UNCHANGED <<pc, template_name, pdf, page_i, page_log, render,
                   dedupeVars, coreVars, truncateVars, generateVars, formatVars>>

(* `if not sections: return`, then the renderer, generate_from_content and *)
(* save inside their try.                                                  *)
NoteRender ==
    /\ pc = "deduped"
    /\ topic_p > Len(filtered_topics)
    /\ IF SectionsGenerated(sections)
       THEN \E outcome \in RenderOutcomes :
               render' = [made |-> render.made + 1,
                          template |-> RenderedTemplate,
                          generated |-> render.generated
                                           + (IF outcome # "init_error" THEN 1 ELSE 0),
                          passed |-> IF outcome # "init_error" THEN sections ELSE <<>>,
                          file_template |-> IF outcome \in {"ok", "save_error"}
                                            THEN safe_template(template_name)
                                            ELSE <<>>,
                          saved |-> render.saved + (IF outcome = "ok" THEN 1 ELSE 0)]
       ELSE UNCHANGED render
    /\ pc' = "done"
    /\ UNCHANGED <<template_name, pdf, page_i, page_log, topic_p, topic_log, sections,
                   dedupeVars, coreVars, truncateVars, generateVars, formatVars>>

NextNote == NoteOpen \/ NotePage \/ DedupeTopic \/ NoteTopic \/ NoteRender

SpecNote == InitNote /\ [][NextNote]_vars

(* The templates note is called with. *)
TemplateNames ==
    { <<"d", "e", "f", "a", "u", "l", "t">>, <<"g", "r", "e", "e", "n">>, <<"b", "l", "u", "e", ".", "p", "p", "t", "x">>,
      <<"m", "y", " ", "d", "e", "c", "k", " ", "(", "v", "2", ")">> }

(* note(pdf_file, template_name) for a PDF of one page. *)
InitNoteTemplate ==
    /\ pc = "note"
    /\ template_name \in TemplateNames
    /\ pdf = [readable |-> TRUE, total_pages |-> 1]
    /\ page_i = 0 /\ page_log = <<>> /\ topic_p = 1 /\ topic_log = <<>>
    /\ sections = <<>> /\ render = NoRender
    /\ topics = <<>> /\ filtered_topics = <<>> /\ topic_i = 1
    /\ NoCore /\ NoTruncate /\ NoGenerate /\ NoFormat

SpecNoteTemplate == InitNoteTemplate /\ [][NextNote]_vars

(* ================== the Content Distributor (C1 - C5) ================== *)

(* The bullets of the slides, in slide order. *)
DistributedBullets ==
    Flatten([j \in 1..Len(slides_content) |-> slides_content[j].content], 1)

(* C1: _distribute_content neither drops, duplicates nor reorders bullets: *)
(* the bullet lists of the returned slides, concatenated in order, are    *)
(* exactly the processed bullets (each input bullet cleaned, the empty   *)
(* ones left out, the long ones replaced by their split pieces), so the   *)
(* bullet counts of the slides sum to the number of processed bullets.    *)
C1_BulletsPreserved ==
    pc = "return" =>
        /\ DistributedBullets = ProcessContent(content, 1)
        /\ SumLen([j \in 1..Len(slides_content) |-> slides_content[j].content],
                  1, Len(slides_content))
               = Len(ProcessContent(content, 1))

(* Seven bullets, the second one split in two: eight bullets on two slides. *)
C1_Witness ==
    /\ pc = "return"
    /\ content = ContentOf(7, 2, "long")
    /\ max_slides = None
    /\ Len(slides_content) = 2
    /\ Len(DistributedBullets) = 8

(* C2: whatever max_slides is (absent, zero, negative or positive), no     *)
(* returned slide holds more than MAX_BULLETS_PER_SLIDE bullets.           *)
C2_AtMostMaxBullets ==
    pc = "return" =>
        \A j \in 1..Len(slides_content) :
            Len(slides_content[j].content) <= MAX_BULLETS_PER_SLIDE

(* Twelve bullets for one slide: the first slide is full, two more follow. *)
C2_Witness ==
    /\ pc = "return"
    /\ content = ContentOf(12, 0, "none")
    /\ max_slides = IntVal(1)
    /\ Len(slides_content[1].content) = MAX_BULLETS_PER_SLIDE
    /\ Len(slides_content) = 3

(* C3 as stated: with max_slides > 0 the number of returned slides is at   *)
(* most max_slides, for every number of processed bullets.                 *)
C3_AtMostMaxSlides ==
    (pc = "return" /\ SlidesGiven(max_slides)) =>
        Len(slides_content) <= max_slides.int

(* C3 as amended: with max_slides > 0 the number of returned slides is at  *)
(* most max_slides when the processed bullets number at most               *)
(* MAX_BULLETS_PER_SLIDE * max_slides; with more bullets than that the     *)
(* slides are full and their number is ceil(bullets / MAX_BULLETS_PER_SLIDE). *)
C3_SlideBudget ==
    (pc = "return" /\ SlidesGiven(max_slides)) =>
        LET n == Len(ProcessContent(content, 1))
            m == max_slides.int
            k == Len(slides_content)
        IN  IF n <= MAX_BULLETS_PER_SLIDE * m
            THEN k <= m
            ELSE /\ k * MAX_BULLETS_PER_SLIDE >= n
                 /\ (k - 1) * MAX_BULLETS_PER_SLIDE < n

(* Seven bullets for four slides: two a slide, four slides. *)
C3_Witness ==
    /\ pc = "return"
    /\ content = ContentOf(7, 0, "none")
    /\ max_slides = IntVal(4)
    /\ Len(slides_content) = 4

(* C4: when the processed bullets make more than one slide, the i-th slide *)
(* is titled title + " (Part i/n)", n the number of slides returned; when  *)
(* they make one slide it keeps the title unchanged.                       *)
C4_PartTitles ==
    pc = "return" =>
        LET n == Len(slides_content)
        IN  IF n > 1
            THEN \A i \in 1..n :
                    slides_content[i].title =
                        title \o <<" ", "(", "P", "a", "r", "t", " ">> \o Decimal(i)
                              \o <<"/">> \o Decimal(n) \o <<")">>
            ELSE n = 1 /\ slides_content[1].title = title

(* Twelve bullets on twelve slides: the part numbers take two digits. *)
C4_Witness ==
    /\ pc = "return"
    /\ max_slides = IntVal(12)
    /\ Len(slides_content) = 12
    /\ slides_content[10].title =
           title \o <<" ", "(", "P", "a", "r", "t", " ", "1", "0", "/", "1", "2", ")">>

(* The least k with k * d >= n, for d > 0. *)
Ceil(n, d) == CHOOSE k \in 0..n : k * d >= n /\ (k - 1) * d < n

(* C5: the processed bullets are cut into consecutive groups of            *)
(* points_per_slide = max(1, min(5, ceil(bullets / max_slides))) when       *)
(* max_slides is given and > 0, of 5 otherwise; every group but the last   *)
(* has exactly points_per_slide bullets.  Twelve short bullets with        *)
(* max_slides = 3 give three slides of four bullets, "(Part 1/3)" to       *)
(* "(Part 3/3)".                                                           *)
C5_Chunking ==
    pc = "return" =>
        LET processed == ProcessContent(content, 1)
            n == Len(processed)
            pps == IF SlidesGiven(max_slides)
                   THEN Max(1, Min(5, Ceil(n, max_slides.int)))
                   ELSE 5
            k == Len(slides_content)
        IN  /\ k = Max(1, Ceil(n, pps))
            /\ \A j \in 1..k :
                  /\ slides_content[j].content =
                         SubSeq(processed, (j - 1) * pps + 1, Min(j * pps, n))
                  /\ j < k => Len(slides_content[j].content) = pps
            /\ (content = ContentOf(12, 0, "none") /\ max_slides = IntVal(3)) =>
                  /\ k = 3
                  /\ \A j \in 1..3 :
                        /\ Len(slides_content[j].content) = 4
                        /\ slides_content[j].title =
                               title \o <<" ", "(", "P", "a", "r", "t", " ">>
                                     \o <<Digit(j), "/", "3", ")">>

(* Twelve short bullets for three slides. *)
C5_Witness ==
    /\ pc = "return"
    /\ content = ContentOf(12, 0, "none")
    /\ max_slides = IntVal(3)
    /\ Len(slides_content) = 3
    /\ Len(slides_content[3].content) = 4

(* ==================== the Text Normalizer (C6 - C8) ==================== *)

(* C6: _validate_and_clean_text_input is idempotent: cleaning its result   *)
(* once more gives the same text, also for multiply-encoded entities, for  *)
(* entities split by a tag and for repeated backslash escapes.             *)
C6_Idempotent ==
    pc = "again" => cleaned[2] = cleaned[1]

(* A tag sequence "<...>": a '<', at least one character that is no '>',  *)
(* and a '>'.                                                              *)
HasTag(s) ==
    \E i \in 1..Len(s) : \E j \in (i + 2)..Len(s) :
        /\ s[i] = "<"
        /\ s[j] = ">"
        /\ \A k \in (i + 1)..(j - 1) : s[k] # ">"

(* One of the entities _clean_html_entities names stands in s. *)
HasEntity(s) ==
    \E k \in 1..Len(replacements) : Find(s, replacements[k].old, 1) # 0

(* C7: for every input text the cleaned text holds no "<...>" tag          *)
(* sequence and no literal "&...;" entity of the recognised set.           *)
C7_NoTagNoEntity ==
    (pc = "return" /\ text.kind = "str") =>
        ~HasTag(cleaned[1]) /\ ~HasEntity(cleaned[1])

C9_ChunksWithinInput ==
    pc = "return" =>
        /\ Len(chunks) >= 1
        /\ \A k \in 1..Len(chunks) : Len(chunks[k]) <= Len(CleanStr(bullet))

(* C10: on the sentence path every chunk has at most 200 characters, on    *)
(* the clause path at most 180, also when one sentence or clause is longer *)
(* than the cap and with the joining separators counted.                   *)
C10_ChunkCaps ==
    pc = "return" =>
        /\ SplitPath(bullet) = "sentences" =>
              \A k \in 1..Len(chunks) : Len(chunks[k]) <= 200
        /\ SplitPath(bullet) = "clauses" =>
              \A k \in 1..Len(chunks) : Len(chunks[k]) <= 180

(* ================== the Bullet Sizer/Splitter (C11) ==================== *)

(* C11: _split_long_bullet loses, adds and reorders nothing: on every path *)
(* (whole, sentences, clauses) the chunks joined in order by one space are *)
(* the cleaned input text, so regrouping clauses puts no punctuation into  *)
(* a chunk that the text did not have.                                     *)
C11_ChunksRebuildText ==
    pc = "return" =>
        Join(chunks, <<" ">>, 1, Len(chunks)) = CleanStr(bullet)

(* ================= the Topic Deduplicator (C12 - C13) ================== *)

(* a is b with some of its items left out, the others in their order. *)
IsSubsequence(a, b) ==
    \E f \in [1..Len(a) -> 1..Len(b)] :
        /\ \A i \in 1..Len(a) : b[f[i]] = a[i]
        /\ \A i, j \in 1..Len(a) : i < j => f[i] < f[j]

(* The tokens of a topic: the maximal runs without white space of the      *)
(* lowercased topic with its non-word, non-space characters removed.       *)
Tokens(t) ==
    LET n == RemovePunctuation(LowerStr(t))
        starts == {i \in 1..Len(n) : ~IsSpace(n[i]) /\ (i = 1 \/ IsSpace(n[i - 1]))}
        End(i) == CHOOSE j \in i..Len(n) :
                      /\ \A k \in i..j : ~IsSpace(n[k])
                      /\ (j = Len(n) \/ IsSpace(n[j + 1]))
    IN  {SubSeq(n, i, End(i)) : i \in starts}

(* The Jaccard similarity of the token sets of two topics is >= 0.7. *)
NearDuplicates(t1, t2) ==
    LET both == Tokens(t1) \cap Tokens(t2)
        any == Tokens(t1) \cup Tokens(t2)
    IN  any # {} /\ 10 * Cardinality(both) >= 7 * Cardinality(any)

(* C12: the topics kept by the deduplication loop of note are a            *)
(* subsequence of the topics given (their order is kept), and no two of    *)
(* them have token sets of Jaccard similarity >= 0.7.                      *)
C12_OrderedNoNearDuplicates ==
    pc \in {"dedupe", "deduped"} =>
        /\ IsSubsequence(filtered_topics, topics)
        /\ \A i, j \in 1..Len(filtered_topics) :
               i < j => ~NearDuplicates(filtered_topics[i], filtered_topics[j])

(* Ten words, seven of them, ten again: the similarity of exactly 0.7      *)
(* drops the second and the third topic.                                   *)
C12_Witness ==
    /\ pc = "deduped"
    /\ topics = <<Chars("T9"), Chars("T8"), Chars("T9")>>
    /\ filtered_topics = <<Chars("T9")>>

(* The normalized form of a topic: lowercased, the non-word, non-space     *)
(* characters removed, the white space collapsed and trimmed.              *)
NormalizedTopic(t) ==
    LET low == [i \in 1..Len(t) |-> Lower(t[i])]
        Word(c) == c \in WordChars \/ c \in WhiteSpace
    IN  Strip(CollapseSpaces(SelectSeq(low, Word)))

RECURSIVE KeptOf(_, _)
(* The topics kept among the first k: a topic is kept exactly when its     *)
(* normalized form is longer than 5 and it is no near-duplicate of a topic *)
(* kept before it.                                                         *)
KeptOf(ts, k) ==
    IF k = 0 THEN <<>>
    ELSE LET kept == KeptOf(ts, k - 1)
         IN  IF /\ Len(NormalizedTopic(ts[k])) > 5
                /\ \A e \in 1..Len(kept) : ~NearDuplicates(ts[k], kept[e])
             THEN Append(kept, ts[k])
             ELSE kept

(* C13: a topic is kept exactly when its normalized form has a length > 5  *)
(* and its token set has a Jaccard similarity < 0.7 with every topic kept  *)
(* before it, so the first of a group of near-duplicates is the one kept;  *)
(* of "Network Security Basics", "Basics of Network Security" and          *)
(* "Quantum Computing" the first and the third are kept.                   *)
C13_KeepRule ==
    pc \in {"dedupe", "deduped"} =>
        /\ filtered_topics = KeptOf(topics, topic_i - 1)
        /\ (pc = "deduped" /\ topics = <<Chars("T1"), Chars("T2"), Chars("T3")>>) =>
               filtered_topics = <<Chars("T1"), Chars("T3")>>

(* The three topics of the scenario, the second one dropped. *)
C13_Witness ==
    /\ pc = "deduped"
    /\ topics = <<Chars("T1"), Chars("T2"), Chars("T3")>>
    /\ Len(filtered_topics) = 2
    /\ filtered_topics[2] = Chars("T3")

(* ===================== title truncation (C14 - C15) ==================== *)

(* s ends with "..." *)
EndsInDots(s) ==
    Len(s) >= 3 /\ SubSeq(s, Len(s) - 2, Len(s)) = <<".", ".", ".">>

(* C14: for a title whose normalized length exceeds 65 (such as "A " * 40) *)
(* _truncate_title returns a text of at most 65 characters that ends in    *)
(* "..."; for a title whose normalized length is at most 65 it returns the *)
(* normalized title unchanged.                                             *)
C14_TitleBound ==
    pc = "return" =>
        LET normalized == _validate_and_clean_text_input(raw_title)
        IN  IF Len(normalized) > 65
            THEN Len(shown_title) <= 65 /\ EndsInDots(shown_title)
            ELSE shown_title = normalized

(* "A " * 40: 31 words of the 40 fit, 61 characters and the three dots. *)
C14_Witness ==
    /\ pc = "return"
    /\ raw_title = StrVal(ManyWords)
    /\ Len(shown_title) = 64
    /\ EndsInDots(shown_title)

(* The first k words of s, joined by single spaces. *)
WordPrefix(s, k) == Join(SplitWords(s), <<" ">>, 1, k)

(* C15: for a title longer than 65 characters _truncate_title returns the  *)
(* longest prefix of whole words, joined by single spaces, of length at    *)
(* most 62, followed by "..."; when not even the first word fits it        *)
(* returns the first 62 characters of the title followed by "...", never a *)
(* result without a character of the title.                                *)
C15_WordPrefixOrHardCut ==
    pc = "return" =>
        LET normalized == _validate_and_clean_text_input(raw_title)
            fit == {k \in 1..Len(SplitWords(normalized)) :
                       Len(WordPrefix(normalized, k)) <= 62}
        IN  Len(normalized) > 65 =>
                /\ shown_title =
                       (IF fit # {}
                        THEN WordPrefix(normalized, CHOOSE k \in fit : \A j \in fit : j <= k)
                        ELSE SubSeq(normalized, 1, 62)) \o <<".", ".", ".">>
                /\ Len(shown_title) > 3

(* ================ generate_from_content (C16 - C17) ==================== *)

(* How many slides of the kind self.ppt holds. *)
SlidesOfKind(kind) == Cardinality({j \in 1..Len(ppt) : ppt[j].kind = kind})

(* C16: for every content dict given to generate_from_content on a fresh   *)
(* generator (no slide in the deck before the call), also one whose        *)
(* sections are empty or missing, the deck produced starts with exactly    *)
(* one title slide and ends with exactly one closing slide.                *)
C16_TitleFirstClosingLast ==
    (pc = "returned" /\ SlidesOfKind("template") = 0) =>
        /\ Len(ppt) >= 2
        /\ ppt[1].kind = "title" /\ SlidesOfKind("title") = 1
        /\ ppt[Len(ppt)].kind = "closing" /\ SlidesOfKind("closing") = 1

RECURSIVE SlideSpecsFrom(_, _)
(* The SlideSpecs _distribute_content returns for the sections from the    *)
(* k-th on that have content, in the order of the sections.                *)
SlideSpecsFrom(dict, k) ==
    IF k > Len(SectionsOf(dict)) THEN <<>>
    ELSE LET section == SectionsOf(dict)[k]
         IN  (IF section.content = <<>> THEN <<>>
              ELSE _distribute_content(
                       _validate_and_clean_text_input(StrVal(section.title)),
                       section.content, IntVal(max_slides_for_section(dict))))
                 \o SlideSpecsFrom(dict, k + 1)

(* C17: on a generator whose deck starts empty each SlideSpec of           *)
(* _distribute_content gives exactly one slide: the slides between the     *)
(* title slide and the closing slide are, in order, the SlideSpecs of the  *)
(* sections with content, and the slide count returned is 2 plus the       *)
(* number of those SlideSpecs.                                             *)
C17_OneSlidePerSlideSpec ==
    (pc = "returned" /\ SlidesOfKind("template") = 0) =>
        LET specs == SlideSpecsFrom(content_dict, 1)
        IN  /\ actual_slides = 2 + Len(specs)
            /\ Len(ppt) = 2 + Len(specs)
            /\ \A j \in 1..Len(specs) :
                   /\ ppt[j + 1].kind = "section"
                   /\ ppt[j + 1].args.title = specs[j].title
                   /\ ppt[j + 1].args.content =
                          [k \in 1..Len(specs[j].content) |-> StrVal(specs[j].content[k])]

(* =================== the Rich-Text Formatter (C18) ===================== *)

(* A run of the paragraph without its font: its text and its style. *)
StyleOf(run) ==
    [text |-> run.text,
     style |-> IF run.bold THEN "bold" ELSE IF run.italic THEN "italic" ELSE "plain"]

(* The runs of a segmented text: a span (every second segment) gives one   *)
(* run of the style with its marks of k characters stripped, every other   *)
(* segment is a remaining text.                                            *)
SpanRun(segment, k, style) ==
    [text |-> SubSeq(segment, k + 1, Len(segment) - k), style |-> style]

(* The runs the claim names for a text that is not bold: one italic run    *)
(* per italic span, one plain run per remaining text that is not empty.    *)
ItalicAndPlain(segment) ==
    LET segs == SplitSpansFrom(segment, 1, 1, "*", 1)
    IN  Flatten([j \in 1..Len(segs) |->
                    IF j % 2 = 0 THEN <<SpanRun(segs[j], 1, "italic")>>
                    ELSE IF segs[j] = <<>> THEN <<>>
                    ELSE <<[text |-> segs[j], style |-> "plain"]>>], 1)

(* The runs the claim names for a text: one bold run per bold span, and    *)
(* the runs of the texts between the bold spans.                           *)
ExpectedRuns(t) ==
    LET segs == SplitSpansFrom(t, 1, 1, "*", 2)
    IN  Flatten([j \in 1..Len(segs) |->
                    IF j % 2 = 0 THEN <<SpanRun(segs[j], 2, "bold")>>
                    ELSE ItalicAndPlain(segs[j])], 1)

(* C18: _apply_text_formatting gives, in text order, exactly one bold run  *)
(* per bold span, one italic run per italic span of a text that is not     *)
(* bold, and one plain run per remaining text that is not empty, the marks *)
(* stripped, and no other run (none with an empty text), wherever the      *)
(* spans stand: also for a text between bold spans that starts with an     *)
(* italic span.  "This is **bold** and *italic* text" gives plain          *)
(* "This is ", bold "bold", plain " and ", italic "italic", plain " text". *)
C18_RunsPerSpan ==
    (pc = "return" /\ Strip(_process_text_formatting(original_text)) # <<>>) =>
        /\ \A j \in 1..Len(runs) : runs[j].text # <<>>
        /\ [j \in 1..Len(runs) |-> StyleOf(runs[j])]
               = ExpectedRuns(_process_text_formatting(original_text))
        /\ original_text = BoldAndItalic =>
               [j \in 1..Len(runs) |-> StyleOf(runs[j])] =
                   << [text |-> <<"T", "h", "i", "s", " ", "i", "s", " ">>, style |-> "plain"],
                      [text |-> <<"b", "o", "l", "d">>, style |-> "bold"],
                      [text |-> <<" ", "a", "n", "d", " ">>, style |-> "plain"],
                      [text |-> <<"i", "t", "a", "l", "i", "c">>, style |-> "italic"],
                      [text |-> <<" ", "t", "e", "x", "t">>, style |-> "plain"] >>


(* =========================== note (C19 - C20) ========================== *)

(* The number of entries of topic_log that gave a section. *)
RECURSIVE SectionCount(_)
SectionCount(log) ==
    IF log = <<>> THEN 0
    ELSE (IF log[Len(log)].section THEN 1 ELSE 0)
             + SectionCount(SubSeq(log, 1, Len(log) - 1))

(* The number of topics the entries of page_log gave. *)
RECURSIVE FoundCount(_)
FoundCount(log) ==
    IF log = <<>> THEN 0
    ELSE log[Len(log)].found + FoundCount(SubSeq(log, 1, Len(log) - 1))

(* C19: in note a failure of the generative call for one page or one      *)
(* topic never aborts the run: the pages are processed in order and, once  *)
(* the page loop is left, all of them were; the topics kept are processed  *)
(* in order and, once the run is over, all of them were; a page whose      *)
(* call failed gave no topic and a topic whose call failed gave no         *)
(* section, topics and sections holding what the other ones gave.          *)
C19_FailuresAreIsolated ==
    /\ \A i \in 1..Len(page_log) :
          /\ page_log[i].page = i
          /\ page_log[i].kind \in {"send_error", "extract_error"}
                => page_log[i].found = 0
    /\ Len(topics) = FoundCount(page_log)
    /\ (pdf.readable /\ pc \notin {"note", "pages"})
          => Len(page_log) = pdf.total_pages
    /\ \A i \in 1..Len(topic_log) :
          /\ topic_log[i].topic = filtered_topics[i]
          /\ topic_log[i].error => ~topic_log[i].section
          /\ topic_log[i].error
                => \A k \in 1..Len(sections) : sections[k].title # topic_log[i].topic
    /\ Len(sections) = SectionCount(topic_log)
    /\ (pc = "done" /\ topics # <<>>) => Len(topic_log) = Len(filtered_topics)

(* A finished run in which the call failed for the first page and for the  *)
(* first topic, and the next page gave topics and the next topic a         *)
(* section.                                                                *)
C19_Witness ==
    /\ pc = "done"
    /\ Len(page_log) = 2 /\ page_log[1].kind = "send_error" /\ page_log[2].found > 0
    /\ Len(topic_log) = 2 /\ topic_log[1].error /\ topic_log[2].section

(* C20: note produces an artifact only when a section exists: when the PDF *)
(* cannot be read, no topic is found or no section is generated, the run   *)
(* ends with no renderer made, no call of generate_from_content and no     *)
(* file saved; in every other case the renderer is made exactly once, when *)
(* every topic has been processed, generate_from_content is called at most *)
(* once on it and a file is saved at most once.                            *)
C20_ArtifactOnlyWithSections ==
    /\ render.made <= 1
    /\ render.generated <= render.made
    /\ render.saved <= render.generated
    /\ render.made = 1
          => /\ pc = "done"
             /\ Len(topic_log) = Len(filtered_topics)
    /\ pc = "done"
          => IF ~pdf.readable \/ topics = <<>> \/ sections = <<>>
             THEN render = NoRender
             ELSE render.made = 1

(* A finished run that saved a file for two sections. *)
C20_Witness ==
    /\ pc = "done"
    /\ Len(sections) = 2
    /\ render.made = 1 /\ render.generated = 1 /\ render.saved = 1

(* ===================== the bullets of note (C21) ======================= *)

(* The bullets of every section built so far. *)
SectionBullets ==
    { ki \in (1..Len(sections)) \X (1..8) : ki[2] <= Len(sections[ki[1]].content) }

C22_EveryRunHasFont ==
    pc = "return" =>
        \A j \in 1..Len(runs) :
            /\ runs[j].size = DEFAULT_CONTENT_FONT_SIZE
            /\ runs[j].name = "Calibri"

(* ==================== the sections of note (C23) ====================== *)

(* The topics of the entries of topic_log for which engine returned at     *)
(* least 3 bullets, in order.                                              *)
RECURSIVE TopicsWithThree(_)
TopicsWithThree(log) ==
    IF log = <<>> THEN <<>>
    ELSE TopicsWithThree(SubSeq(log, 1, Len(log) - 1))
             \o (IF log[Len(log)].bullets >= 3 THEN <<log[Len(log)].topic>> ELSE <<>>)

(* C23: every section note builds, and every section it passes to the      *)
(* renderer, has 3 to 8 bullets; the sections are the topics for which     *)
(* engine returned at least 3 bullets, in the order of the deduplicated    *)
(* topics; a topic whose call failed got the fallback bullet alone and is  *)
(* no section; generate_from_content is given the sections built.          *)
C23_SectionsOfThreeToEight ==
    /\ \A k \in 1..Len(sections) : Len(sections[k].content) \in 3..8
    /\ [k \in 1..Len(sections) |-> sections[k].title] = TopicsWithThree(topic_log)
    /\ \A i \in 1..Len(topic_log) :
          /\ topic_log[i].topic = filtered_topics[i]
          /\ topic_log[i].bullets <= 8
          /\ topic_log[i].section <=> topic_log[i].bullets >= 3
          /\ topic_log[i].error => topic_log[i].bullets = 1 /\ ~topic_log[i].section
    /\ render.generated = 1 => render.passed = sections /\ sections # <<>>
    /\ render.generated = 0 => render.passed = <<>>

(* A finished run that passed the renderer a section of 3 bullets for the  *)
(* second topic, the first one having got the fallback bullet.             *)
C23_Witness ==
    /\ pc = "done"
    /\ render.generated = 1
    /\ Len(topic_log) = 2 /\ topic_log[1].error
    /\ Len(render.passed) = 1
    /\ render.passed[1].title = filtered_topics[2]
    /\ Len(render.passed[1].content) = 3

(* ==================== the template of note (C24) ====================== *)

(* C24: the renderer note makes is given the template the caller passed as *)
(* template_name, the name that also goes into the name of the file.       *)
C24_RenderedWithCallersTemplate ==
    render.made = 1 =>
        /\ render.template = template_name
        /\ render.saved = 1 => render.file_template = safe_template(render.template)

(* =================== the bullets of a slide (C25) ====================== *)

(* C25: every bullet of a SlideSpec that generate_from_content passes to   *)
(* add_section_slide is a paragraph of that slide, in order: the           *)
(* paragraphs of a section slide are the cleaned bullets it was given,     *)
(* none dropped, whatever the length of a bullet.                          *)
C25_NoBulletDropped ==
    pc = "returned" =>
        \A j \in 1..Len(ppt) :
            ppt[j].kind = "section" =>
                ppt[j].content =
                    [k \in 1..Len(ppt[j].args.content) |->
                        _validate_and_clean_text_input(
                            StrVal(PyStr(ppt[j].args.content[k])))]

(* ================ the titles of a section's slides (C26) =============== *)

(* "(Part i/n)" *)
PartIndicator(i, n) ==
    <<"(", "P", "a", "r", "t", " ">> \o Decimal(i) \o <<"/">> \o Decimal(n) \o <<")">>

(* t.endswith(suffix) *)
EndsWith(t, suffix) ==
    Len(suffix) <= Len(t) /\ SubSeq(t, Len(t) - Len(suffix) + 1, Len(t)) = suffix

(* The slide is the i-th of the n slides of a section. *)
IsPart(slide, i, n) ==
    slide.kind = "section" /\ EndsWith(slide.args.title, <<" ">> \o PartIndicator(i, n))

(* The most slides one section of the inputs is distributed over. *)
MostParts == 8

(* C26: when a section is distributed over several slides, the rendered    *)
(* title of each of its slides keeps the "(Part i/n)" indicator it was     *)
(* given, and the titles of two slides of the section that follow each     *)
(* other differ, whatever the length of the section title.                 *)
C26_PartTitlesKept ==
    pc = "returned" =>
        \A j \in 1..Len(ppt) : \A n \in 2..MostParts : \A i \in 1..n :
            IsPart(ppt[j], i, n) =>
                /\ EndsWith(ppt[j].title, PartIndicator(i, n))
                /\ (j < Len(ppt) /\ IsPart(ppt[j + 1], i + 1, n))
                      => ppt[j + 1].title # ppt[j].title

====
